---- MODULE Spec2Model ----
(***************************************************************************)
(* A model of src/app.py: the visual-regression pipeline                   *)
(*   save_code_to_file, capture_screenshot_from_file, pixel_match,         *)
(*   download_image, process_google_sheet and the Streamlit run action.    *)
(*                                                                         *)
(* Units.  Percentages are integers in hundredths of a percent (8765 is    *)
(* 87.65); a similarity index is an integer in units of 10^-5.             *)
(* Text is a sequence of one-character strings, so that str.strip() is     *)
(* computed.  A sheet cell is [type, val]: gspread's get_all_records       *)
(* turns a numeric cell into an int, which has no strip().                 *)
(***************************************************************************)
EXTENDS Integers, Sequences, FiniteSets, TLC

\* ------------------------------------------------------------------ bounds
\* Largest number of data rows of the worksheet.
MaxRows == 2

\* ------------------------------------------------------------ program data
DesktopWidth == 1920
DesktopHeight == 1080
MobileWidth == 420
MobileHeight == 812
HttpOk == 200
\* skimage's structural_similarity uses a 7x7 window by default and raises
\* ValueError when an image side is smaller.
SsimWindow == 7

Viewports == {"desktop", "mobile"}

viewport_size_MobileForBoth(vp) == [width |-> MobileWidth, height |-> MobileHeight]

\* the viewport_size argument of the capture call of a viewport (lines 146-147)
viewport_size(vp) ==
    IF vp = "desktop" THEN [width |-> DesktopWidth, height |-> DesktopHeight]
                      ELSE [width |-> MobileWidth, height |-> MobileHeight]

\* ------------------------------------------------------------------- cells
Str(s) == [type |-> "str", val |-> s]
IntCell == [type |-> "int", val |-> <<"7">>]

IsSpace(c) == c \in {" ", "\t", "\n"}

RECURSIVE LStrip(_)
LStrip(s) == IF s # << >> /\ IsSpace(Head(s)) THEN LStrip(Tail(s)) ELSE s

RECURSIVE RStrip(_)
RStrip(s) ==
    IF s # << >> /\ IsSpace(s[Len(s)]) THEN RStrip(SubSeq(s, 1, Len(s) - 1)) ELSE s

\* str.strip()
Strip(s) == RStrip(LStrip(s))

\* row.get(col, '').strip() raises AttributeError on a cell that is no str
CanStrip(cell) == cell.type = "str"

\* a match-percentage cell: None, an empty sheet cell, or a number
NoneCell == [type |-> "none", val |-> 0]
BlankCell == [type |-> "blank", val |-> 0]
Num(n) == [type |-> "num", val |-> n]
Absent(c) == c.type # "num"

\* ------------------------------------------------------- the inputs drawn
Markup == <<" ", "h", " ">>
Style == <<"c">>
Url == <<"u">>

RowShapes ==
    { [html |-> Str(Markup), css |-> Str(Style), dref |-> Str(Url), mref |-> Str(Url)],
      [html |-> Str(<< >>), css |-> Str(Style), dref |-> Str(Url), mref |-> Str(Url)],
      [html |-> Str(Markup), css |-> Str(<<" ">>), dref |-> Str(Url), mref |-> Str(Url)],
      [html |-> Str(Markup), css |-> Str(Style), dref |-> Str(<< >>), mref |-> Str(Url)],
      [html |-> Str(Markup), css |-> Str(Style), dref |-> Str(Url), mref |-> Str(<<" ">>)],
      [html |-> IntCell, css |-> Str(Style), dref |-> Str(Url), mref |-> Str(Url)],
      [html |-> Str(Markup), css |-> Str(<< >>), dref |-> Str(Url), mref |-> IntCell] }

\* the header row of the worksheet
InputColumns ==
    <<"HTML Code", "CSS Code", "Desktop Reference Image", "Mobile Reference Image">>
MatchColumns == <<"Desktop Match %", "Mobile Match %">>
Header(cols) == IF cols THEN InputColumns \o MatchColumns ELSE InputColumns

\* what an earlier run left in the two match columns of every row: empty cells
\* (the rows were skipped or failed) or two scores
PriorMatches ==
    { [dm |-> BlankCell, mm |-> BlankCell], [dm |-> Num(8750), mm |-> Num(9125)] }

\* the worksheets the run can be pointed at: without the match columns (never
\* processed before) or with them (written back by an earlier run)
Sheets ==
    UNION { { [cols |-> FALSE, header |-> Header(FALSE), rows |-> r, match |-> << >>] : r \in [1..n -> RowShapes] }
            \cup
            { [cols |-> TRUE, header |-> Header(TRUE), rows |-> r,
                match |-> [i \in 1..n |-> m]] :
                  r \in [1..n -> RowShapes], m \in PriorMatches }
          : n \in 0..MaxRows }

\* HTTP responses to requests.get: a network error, a status, a body, and
\* whether reading response.content (stream=True) fails
Responses ==
    { [net |-> "err", status |-> 0, body |-> "none", stream |-> "ok"],
      [net |-> "ok", status |-> 404, body |-> "junk", stream |-> "ok"],
      [net |-> "ok", status |-> 500, body |-> "junk", stream |-> "ok"],
      [net |-> "ok", status |-> 204, body |-> "none", stream |-> "ok"],
      [net |-> "ok", status |-> HttpOk, body |-> "img", stream |-> "ok"],
      [net |-> "ok", status |-> HttpOk, body |-> "icon", stream |-> "ok"],
      [net |-> "ok", status |-> HttpOk, body |-> "junk", stream |-> "ok"],
      [net |-> "ok", status |-> HttpOk, body |-> "img", stream |-> "err"] }

\* document.body.scrollHeight
PageHeights == {600, 2400}

\* structural similarity indices, in units of 10^-5
SsimVals == {-100000, 87654}

\* ------------------------------------------------------------------- files
\* A file of TEMP_DIR: what it holds and which run wrote it.
\*   content: "missing", "doc", "img" (a decodable image), "icon" (a decodable
\*            image of 5x5 pixels), "junk" (bytes that are no image), "empty"
Kinds == {"page", "style", "desktop", "mobile", "desktop_ref", "mobile_ref"}

NoFile == [content |-> "missing", run |-> "none"]
Fresh(c) == [content |-> c, run |-> "this"]
Stale(c) == [content |-> c, run |-> "prev"]

\* os.path.join(TEMP_DIR, f"{kind}_{index}..."): the path names the kind and
\* the row index, and nothing of the run
Path(kind, i) == <<kind, i>>

\* The files at the paths of one row index before this run touches them:
\* nothing, or what an earlier run over a sheet with that row left there.
StagedBefore(stale, i) ==
    [p \in {Path(k, i) : k \in Kinds} |->
        IF ~stale THEN NoFile
        ELSE IF p[1] \in {"page", "style"} THEN Stale("doc") ELSE Stale("img")]

ShotKind(vp) == vp
RefKind(vp) == IF vp = "desktop" THEN "desktop_ref" ELSE "mobile_ref"

\* cv2.imread returns None for a file it cannot decode
Readable(f) == f.content \in {"img", "icon"}

\* the smaller side of a decoded image, in pixels
MinSide(f) == IF f.content = "icon" THEN 5 ELSE 640

VARIABLES
    sheet,          \* the worksheet: [cols, header, rows, match]
    tempStale,      \* TEMP_DIR holds the artifacts of an earlier run
    data,           \* worksheet.get_all_records() of this run
    df,             \* the DataFrame
    index,          \* the row index of the loop (0-based, as in the source)
    pc,             \* where process_google_sheet / the run action stands
    exc,            \* where an exception left process_google_sheet from
    files,          \* TEMP_DIR at the paths of row `index`: path -> file
    driver,         \* capture_screenshot_from_file's position
    window,         \* the browser window size
    browsers,       \* live browser instances
    desktop_match,  \* local of the loop body
    mobile_match,   \* local of the loop body
    cur,            \* what happened to row `index` so far
    writes,         \* per row, how often each match field was assigned
    dl,             \* the last download_image call
    pm,             \* the last pixel_match call
    updated,        \* worksheet.update: "none", "ok", "failed"
    exported,       \* df.to_excel: "none", "ok", "failed"
    excel,          \* the exported file: [columns, rows]
    ui              \* what the page shows: "idle", "success", "error", "input_error"

vars ==
    <<sheet, tempStale, data, df, index, pc, exc, files, driver, window, browsers,
      desktop_match, mobile_match, cur, writes, dl, pm, updated, exported, excel, ui>>

NoWindow == [width |-> 0, height |-> 0]
NoCur ==
    [ops |-> {}, fetch |-> [desktop |-> "none", mobile |-> "none"],
     render |-> [desktop |-> "none", mobile |-> "none"], outcome |-> "pending"]
NoDl == [called |-> FALSE, resp |-> CHOOSE r \in Responses : r.net = "err",
         ret |-> FALSE, raised |-> FALSE, persisted |-> FALSE]
NoPm == [called |-> FALSE, refOk |-> FALSE, testOk |-> FALSE, ret |-> 0,
         raised |-> FALSE, ops |-> << >>]

Init ==
    /\ sheet \in Sheets
    /\ tempStale \in BOOLEAN
    /\ data = << >>
    /\ df = << >>
    /\ index = 0
    /\ pc = "idle"
    /\ exc = "none"
    /\ files = StagedBefore(tempStale, 0)
    /\ driver = "none"
    /\ window = NoWindow
    /\ browsers = 0
    /\ desktop_match = NoneCell
    /\ mobile_match = NoneCell
    /\ cur = NoCur
    /\ writes = << >>
    /\ dl = NoDl
    /\ pm = NoPm
    /\ updated = "none"
    /\ exported = "none"
    /\ excel = [columns |-> << >>, rows |-> << >>]
    /\ ui = "idle"

\* ---------------------------------------------------------- download_image
\* The try body of download_image (lines 173-181): the return value, whether
\* an exception left it, and the file at output_path afterwards.  open(.., 'wb')
\* truncates the file before response.content is read.
DownloadTry(resp, disk, old) ==
    IF resp.net = "err" THEN [ret |-> FALSE, raised |-> TRUE, file |-> old]
    ELSE IF resp.status = HttpOk THEN
        IF ~disk THEN [ret |-> FALSE, raised |-> TRUE, file |-> old]
        ELSE IF resp.stream = "err"
            THEN [ret |-> FALSE, raised |-> TRUE, file |-> Fresh("empty")]
            ELSE [ret |-> TRUE, raised |-> FALSE, file |-> Fresh(resp.body)]
    ELSE [ret |-> FALSE, raised |-> FALSE, file |-> old]

download_image_no_except(resp, disk, old) == DownloadTry(resp, disk, old)

\* download_image: `except Exception` turns every exception into False
download_image(resp, disk, old) ==
    LET t == DownloadTry(resp, disk, old)
    IN  IF t.raised THEN [ret |-> FALSE, raised |-> FALSE, file |-> t.file] ELSE t

\* -------------------------------------------------------------- pixel_match
\* round(n / d) to the nearest integer, ties to even (Python's round), d > 0
RoundHalfEven(n, d) ==
    LET a == IF n < 0 THEN -n ELSE n
        q == a \div d
        r == a % d
        m == IF 2 * r > d \/ (2 * r = d /\ q % 2 = 1) THEN q + 1 ELSE q
    IN  IF n < 0 THEN -m ELSE m

\* round(similarity_index * 100, 2), in hundredths of a percent
MatchPercentage(similarity_index) == RoundHalfEven(similarity_index, 10)

\* structural_similarity raises when the images are smaller than its window
SsimRaises(ref) == MinSide(ref) < SsimWindow

\* pixel_match on the two files, with the index the similarity computation
\* yields: the value returned, whether it raised, and the image operations done
pixel_match(ref, test, similarity_index) ==
    IF ~Readable(ref) THEN
        [refOk |-> FALSE, testOk |-> Readable(test), ret |-> 0, raised |-> FALSE,
         ops |-> << >>]
    ELSE IF ~Readable(test) THEN
        [refOk |-> TRUE, testOk |-> FALSE, ret |-> 0, raised |-> FALSE, ops |-> << >>]
    ELSE IF SsimRaises(ref) THEN
        [refOk |-> TRUE, testOk |-> TRUE, ret |-> 0, raised |-> TRUE,
         ops |-> <<"resize", "gray", "gray", "ssim">>]
    ELSE
        [refOk |-> TRUE, testOk |-> TRUE, ret |-> MatchPercentage(similarity_index),
         raised |-> FALSE, ops |-> <<"resize", "gray", "gray", "ssim">>]

\* ------------------------------------------------------ process_google_sheet
NRows == Len(df)
Row == df[index + 1]

\* the two match columns set to None whether the sheet had them or not
Frame_ClearsMatches(sh) ==
    [i \in 1..Len(sh.rows) |->
        [html |-> sh.rows[i].html, css |-> sh.rows[i].css,
         dref |-> sh.rows[i].dref, mref |-> sh.rows[i].mref,
         dm |-> NoneCell, mm |-> NoneCell]]

\* pd.DataFrame(data) plus the two match columns, None where they are new
Frame(sh) ==
    [i \in 1..Len(sh.rows) |->
        [html |-> sh.rows[i].html, css |-> sh.rows[i].css,
         dref |-> sh.rows[i].dref, mref |-> sh.rows[i].mref,
         dm |-> IF sh.cols THEN sh.match[i].dm ELSE NoneCell,
         mm |-> IF sh.cols THEN sh.match[i].mm ELSE NoneCell]]

\* a cell as the worksheet holds it after worksheet.update: None is an empty cell
ToSheet(c) == IF c.type = "none" THEN BlankCell ELSE c

SeqRange(q) == {q[i] : i \in 1..Len(q)}

\* the keys of the records of get_all_records(): the header, when there is a
\* data row; no record and so no key otherwise
RecordKeys(sh) == IF Len(sh.rows) = 0 THEN << >> ELSE sh.header

\* df.columns: the keys, then each match column that is not among them
\* (lines 107-111)
FrameColumns(sh) ==
    LET keys == RecordKeys(sh)
    IN  keys \o SelectSeq(MatchColumns, LAMBDA c : c \notin SeqRange(keys))

\* cells written from the first cell on, over what the row held
Overwrite(old, new) == new \o SubSeq(old, Len(new) + 1, Len(old))

\* worksheet.update([df.columns.values.tolist()] + df.values.tolist()): the
\* header row, then one row per record, from cell A1
Updated(frame) ==
    [cols |-> TRUE,
     header |-> Overwrite(sheet.header, FrameColumns(data)),
     rows |-> [i \in 1..Len(frame) |->
                 [html |-> frame[i].html, css |-> frame[i].css,
                  dref |-> frame[i].dref, mref |-> frame[i].mref]],
     match |-> [i \in 1..Len(frame) |->
                 [dm |-> ToSheet(frame[i].dm), mm |-> ToSheet(frame[i].mm)]]]

\* the run action with its two text inputs (lines 193-198)
Click ==
    /\ pc = "idle"
    /\ \E sheet_url \in {<< >>, Url} :
        IF sheet_url = << >>
            THEN /\ ui' = "input_error"
                 /\ pc' = "end"
            ELSE /\ pc' = "open"
                 /\ ui' = ui
    /\ UNCHANGED <<sheet, tempStale, data, df, index, exc, files, driver, window,
                   browsers, desktop_match, mobile_match, cur, writes, dl, pm,
                   updated, exported, excel>>

\* lines 100-111: authorize, open, read every record once, add the columns
ReadSheet ==
    /\ pc = "open"
    /\ \E ok \in BOOLEAN :
        IF ok
            THEN /\ data' = sheet
                 /\ df' = Frame(sheet)
                 /\ writes' = [i \in 1..Len(sheet.rows) |-> [dm |-> 0, mm |-> 0]]
                 /\ pc' = IF Len(sheet.rows) = 0 THEN "update" ELSE "row"
                 /\ exc' = exc
            ELSE /\ pc' = "raised"
                 /\ exc' = "setup"
                 /\ UNCHANGED <<data, df, writes>>
    /\ UNCHANGED <<sheet, tempStale, index, files, driver, window, browsers,
                   desktop_match, mobile_match, cur, dl, pm, updated, exported, excel, ui>>

Did(op) == [cur EXCEPT !.ops = @ \cup {op}]
Ended(c, how) == [c EXCEPT !.outcome = how]

\* lines 114-124: the four strips, then the two skip tests
Validate ==
    /\ pc = "row"
    /\ IF ~(CanStrip(Row.html) /\ CanStrip(Row.css) /\ CanStrip(Row.dref)
            /\ CanStrip(Row.mref))
          THEN /\ pc' = "raised"
               /\ exc' = "row"
               /\ cur' = Ended(cur, "raised")
          ELSE /\ exc' = exc
               /\ IF Strip(Row.html.val) = << >> \/ Strip(Row.css.val) = << >>
                     THEN pc' = "next" /\ cur' = Ended(cur, "skipped")
                  ELSE IF Strip(Row.dref.val) = << >> \/ Strip(Row.mref.val) = << >>
                     THEN pc' = "next" /\ cur' = Ended(cur, "skipped")
                  ELSE pc' = "materialize" /\ cur' = cur
    /\ UNCHANGED <<sheet, tempStale, data, df, index, files, driver, window, browsers,
                   desktop_match, mobile_match, writes, dl, pm, updated, exported, excel, ui>>

\* line 127, save_code_to_file (lines 20-44): outside the try of the loop
Materialize ==
    /\ pc = "materialize"
    /\ \E disk \in {"ok", "page_fails", "style_fails"} :
        /\ files' =
             IF disk = "page_fails" THEN files
             ELSE IF disk = "style_fails"
                 THEN [files EXCEPT ![Path("page", index)] = Fresh("doc")]
                 ELSE [files EXCEPT ![Path("page", index)] = Fresh("doc"),
                                    ![Path("style", index)] = Fresh("doc")]
        /\ IF disk = "ok"
              THEN pc' = "fetch_desktop" /\ exc' = exc /\ cur' = Did("materialize")
              ELSE /\ pc' = "raised"
                   /\ exc' = "row"
                   /\ cur' = Ended(Did("materialize"), "raised")
    /\ UNCHANGED <<sheet, tempStale, data, df, index, driver, window, browsers,
                   desktop_match, mobile_match, writes, dl, pm, updated, exported, excel, ui>>

\* a failed download that is reported but does not `continue`
Fetch_NoContinue(vp) ==
    /\ pc = IF vp = "desktop" THEN "fetch_desktop" ELSE "fetch_mobile"
    /\ \E resp \in Responses, disk \in BOOLEAN :
        LET p == Path(RefKind(vp), index)
            r == download_image(resp, disk, files[p])
            c == [Did(IF vp = "desktop" THEN "fetch_desktop" ELSE "fetch_mobile")
                     EXCEPT !.fetch[vp] = IF r.raised THEN "raised"
                                          ELSE IF r.ret THEN "ok" ELSE "fail"]
        IN  /\ files' = [files EXCEPT ![p] = r.file]
            /\ dl' = [called |-> TRUE, resp |-> resp, ret |-> r.ret,
                      raised |-> r.raised,
                      persisted |-> r.file = Fresh(resp.body)]
            /\ IF r.raised THEN pc' = "next" /\ cur' = Ended(c, "failed")
               ELSE /\ pc' = IF vp = "desktop" THEN "fetch_mobile" ELSE "render_desktop"
                    /\ cur' = c
    /\ UNCHANGED <<sheet, tempStale, data, df, index, exc, driver, window, browsers,
                   desktop_match, mobile_match, writes, pm, updated, exported, excel, ui>>

\* lines 138-143: one download_image call of the loop body
Fetch(vp) ==
    /\ pc = IF vp = "desktop" THEN "fetch_desktop" ELSE "fetch_mobile"
    /\ \E resp \in Responses, disk \in BOOLEAN :
        LET p == Path(RefKind(vp), index)
            r == download_image(resp, disk, files[p])
            c == [Did(IF vp = "desktop" THEN "fetch_desktop" ELSE "fetch_mobile")
                     EXCEPT !.fetch[vp] = IF r.raised THEN "raised"
                                          ELSE IF r.ret THEN "ok" ELSE "fail"]
        IN  /\ files' = [files EXCEPT ![p] = r.file]
            /\ dl' = [called |-> TRUE, resp |-> resp, ret |-> r.ret,
                      raised |-> r.raised,
                      persisted |-> r.file = Fresh(resp.body)]
            /\ IF r.raised THEN pc' = "next" /\ cur' = Ended(c, "failed")
               ELSE IF ~r.ret THEN pc' = "next" /\ cur' = Ended(c, "skipped")
               ELSE /\ pc' = IF vp = "desktop" THEN "fetch_mobile" ELSE "render_desktop"
                    /\ cur' = c
    /\ UNCHANGED <<sheet, tempStale, data, df, index, exc, driver, window, browsers,
                   desktop_match, mobile_match, writes, pm, updated, exported, excel, ui>>

\* ------------------------------------------------ capture_screenshot_from_file
RenderPc_MobileFirst(vp) == IF vp = "desktop" THEN "render_mobile" ELSE "render_desktop"

RenderPc(vp) == IF vp = "desktop" THEN "render_desktop" ELSE "render_mobile"

\* line 53: webdriver.Chrome(...), before the try of the function; the window
\* starts at --window-size.  A launch error leaves the function and is caught
\* by the loop's except (line 156).
Launch(vp) ==
    /\ pc = RenderPc(vp)
    /\ driver = "none"
    /\ \E ok \in BOOLEAN :
        IF ok
            THEN /\ driver' = "launched"
                 /\ browsers' = browsers + 1
                 /\ window' = viewport_size(vp)
                 /\ cur' = Did(RenderPc(vp))
                 /\ pc' = pc
            ELSE /\ pc' = "next"
                 /\ cur' = Ended([Did(RenderPc(vp)) EXCEPT !.render[vp] = "launch_failed"],
                                 "failed")
                 /\ UNCHANGED <<driver, browsers, window>>
    /\ UNCHANGED <<sheet, tempStale, data, df, index, exc, files, desktop_match,
                   mobile_match, writes, dl, pm, updated, exported, excel, ui>>

\* lines 56-59: driver.get, the settle interval, hiding the scrollbar
Load(vp) ==
    /\ pc = RenderPc(vp)
    /\ driver = "launched"
    /\ \E ok \in BOOLEAN : driver' = IF ok THEN "loaded" ELSE "failed"
    /\ UNCHANGED <<sheet, tempStale, data, df, index, pc, exc, files, window, browsers,
                   desktop_match, mobile_match, cur, writes, dl, pm, updated, exported, excel, ui>>

\* lines 62-63: measure document.body.scrollHeight, resize the window to it
Resize(vp) ==
    /\ pc = RenderPc(vp)
    /\ driver = "loaded"
    /\ \E ok \in BOOLEAN, total_height \in PageHeights :
        IF ok
            THEN /\ driver' = "resized"
                 /\ window' = [width |-> viewport_size(vp).width, height |-> total_height]
            ELSE /\ driver' = "failed"
                 /\ window' = window
    /\ UNCHANGED <<sheet, tempStale, data, df, index, pc, exc, files, browsers,
                   desktop_match, mobile_match, cur, writes, dl, pm, updated, exported, excel, ui>>

\* line 66: driver.save_screenshot(output_file)
SaveScreenshot(vp) ==
    /\ pc = RenderPc(vp)
    /\ driver = "resized"
    /\ \E ok \in BOOLEAN :
        IF ok
            THEN /\ driver' = "captured"
                 /\ files' = [files EXCEPT ![Path(ShotKind(vp), index)] = Fresh("img")]
            ELSE /\ driver' = "failed"
                 /\ files' = files
    /\ UNCHANGED <<sheet, tempStale, data, df, index, pc, exc, window, browsers,
                   desktop_match, mobile_match, cur, writes, dl, pm, updated, exported, excel, ui>>

BrowsersAtExit_QuitInTry(live, failed) == IF failed THEN live ELSE live - 1

\* lines 68-71: the live browser instances once the function is left, after a
\* try body that failed or not: `finally: driver.quit()`
BrowsersAtExit(live, failed) == live - 1

\* lines 68-71: except prints, finally quits; the function returns None
Quit(vp) ==
    /\ pc = RenderPc(vp)
    /\ driver \in {"captured", "failed"}
    /\ browsers' = BrowsersAtExit(browsers, driver = "failed")
    /\ driver' = "none"
    /\ window' = NoWindow
    /\ cur' = [cur EXCEPT !.render[vp] = IF driver = "failed" THEN "failed" ELSE "ok"]
    /\ pc' = IF vp = "desktop" THEN "render_mobile" ELSE "score_desktop"
    /\ UNCHANGED <<sheet, tempStale, data, df, index, exc, files, desktop_match,
                   mobile_match, writes, dl, pm, updated, exported, excel, ui>>

\* ------------------------------------------------------------ the loop, cont.
ScorePc(vp) == IF vp = "desktop" THEN "score_desktop" ELSE "score_mobile"

\* each score stored in the table as soon as it is computed
Score_RecordsEach(vp) ==
    /\ pc = ScorePc(vp)
    /\ \E similarity_index \in SsimVals :
        LET r == pixel_match(files[Path(RefKind(vp), index)],
                             files[Path(ShotKind(vp), index)], similarity_index)
        IN  /\ pm' = [called |-> TRUE, refOk |-> r.refOk, testOk |-> r.testOk,
                      ret |-> r.ret, raised |-> r.raised, ops |-> r.ops]
            /\ IF r.raised
                  THEN /\ pc' = "next"
                       /\ cur' = Ended(Did(ScorePc(vp)), "failed")
                       /\ UNCHANGED <<desktop_match, mobile_match, df, writes>>
                  ELSE /\ pc' = IF vp = "desktop" THEN "score_mobile" ELSE "next"
                       /\ cur' = IF vp = "desktop" THEN Did(ScorePc(vp))
                                  ELSE Ended(Did(ScorePc(vp)), "recorded")
                       /\ desktop_match' = IF vp = "desktop" THEN Num(r.ret)
                                                             ELSE desktop_match
                       /\ mobile_match' = IF vp = "mobile" THEN Num(r.ret)
                                                           ELSE mobile_match
                       /\ df' = IF vp = "desktop"
                                 THEN [df EXCEPT ![index + 1].dm = Num(r.ret)]
                                 ELSE [df EXCEPT ![index + 1].mm = Num(r.ret)]
                       /\ writes' = IF vp = "desktop"
                                     THEN [writes EXCEPT ![index + 1].dm = @ + 1]
                                     ELSE [writes EXCEPT ![index + 1].mm = @ + 1]
    /\ UNCHANGED <<sheet, tempStale, data, index, exc, files, driver, window,
                   browsers, dl, updated, exported, excel, ui>>

\* lines 150-151: one pixel_match call of the loop body
Score(vp) ==
    /\ pc = ScorePc(vp)
    /\ \E similarity_index \in SsimVals :
        LET r == pixel_match(files[Path(RefKind(vp), index)],
                             files[Path(ShotKind(vp), index)], similarity_index)
        IN  /\ pm' = [called |-> TRUE, refOk |-> r.refOk, testOk |-> r.testOk,
                      ret |-> r.ret, raised |-> r.raised, ops |-> r.ops]
            /\ IF r.raised
                  THEN /\ pc' = "next"
                       /\ cur' = Ended(Did(ScorePc(vp)), "failed")
                       /\ UNCHANGED <<desktop_match, mobile_match>>
                  ELSE /\ pc' = IF vp = "desktop" THEN "score_mobile" ELSE "record"
                       /\ cur' = Did(ScorePc(vp))
                       /\ desktop_match' = IF vp = "desktop" THEN Num(r.ret)
                                                             ELSE desktop_match
                       /\ mobile_match' = IF vp = "mobile" THEN Num(r.ret)
                                                           ELSE mobile_match
    /\ UNCHANGED <<sheet, tempStale, data, df, index, exc, files, driver, window,
                   browsers, writes, dl, updated, exported, excel, ui>>

Record_FirstRow ==
    /\ pc = "record"
    /\ df' = [df EXCEPT ![1].dm = desktop_match, ![1].mm = mobile_match]
    /\ writes' = [writes EXCEPT ![1].dm = @ + 1, ![1].mm = @ + 1]
    /\ cur' = Ended(Did("record"), "recorded")
    /\ pc' = "next"
    /\ UNCHANGED <<sheet, tempStale, data, index, exc, files, driver, window, browsers,
                   desktop_match, mobile_match, dl, pm, updated, exported, excel, ui>>

\* lines 154-155: the two df.at assignments
Record ==
    /\ pc = "record"
    /\ df' = [df EXCEPT ![index + 1].dm = desktop_match, ![index + 1].mm = mobile_match]
    /\ writes' = [writes EXCEPT ![index + 1].dm = @ + 1, ![index + 1].mm = @ + 1]
    /\ cur' = Ended(Did("record"), "recorded")
    /\ pc' = "next"
    /\ UNCHANGED <<sheet, tempStale, data, index, exc, files, driver, window, browsers,
                   desktop_match, mobile_match, dl, pm, updated, exported, excel, ui>>

\* line 113: df.iterrows() yields the next row, or the loop ends.  `files`,
\* `cur`, `dl`, `pm` and the two locals describe the row at hand: the paths of
\* the next row are other paths, and the locals are assigned before they are read.
NextRow ==
    /\ pc = "next"
    /\ index' = index + 1
    /\ pc' = IF index + 1 < NRows THEN "row" ELSE "update"
    /\ files' = StagedBefore(tempStale, index + 1)
    /\ cur' = NoCur
    /\ dl' = NoDl
    /\ pm' = NoPm
    /\ desktop_match' = NoneCell
    /\ mobile_match' = NoneCell
    /\ UNCHANGED <<sheet, tempStale, data, df, exc, driver, window, browsers, writes,
                   updated, exported, excel, ui>>

\* lines 160-164: the write-back, its exception printed and dropped
Update ==
    /\ pc = "update"
    /\ \E ok \in BOOLEAN :
        IF ok THEN sheet' = Updated(df) /\ updated' = "ok"
              ELSE sheet' = sheet /\ updated' = "failed"
    /\ pc' = "export"
    /\ UNCHANGED <<tempStale, data, df, index, exc, files, driver, window, browsers,
                   desktop_match, mobile_match, cur, writes, dl, pm, exported, excel, ui>>

\* lines 167-168: df.to_excel, outside any try
Export ==
    /\ pc = "export"
    /\ \E ok \in BOOLEAN :
        IF ok THEN /\ excel' = [columns |-> FrameColumns(data), rows |-> df]
                   /\ exported' = "ok" /\ pc' = "returned" /\ exc' = exc
              ELSE excel' = excel /\ exported' = "failed" /\ pc' = "raised"
                   /\ exc' = "export"
    /\ UNCHANGED <<sheet, tempStale, data, df, index, files, driver, window, browsers,
                   desktop_match, mobile_match, cur, writes, dl, pm, updated, ui>>

\* lines 197-201: st.success when process_google_sheet returns, st.error when
\* it raises
Report ==
    /\ pc \in {"returned", "raised"}
    /\ ui' = IF pc = "returned" THEN "success" ELSE "error"
    /\ pc' = "end"
    /\ UNCHANGED <<sheet, tempStale, data, df, index, exc, files, driver, window,
                   browsers, desktop_match, mobile_match, cur, writes, dl, pm, updated,
                   exported, excel>>

Next ==
    \/ Click
    \/ ReadSheet
    \/ Validate
    \/ Materialize
    \/ \E vp \in Viewports : Fetch(vp)
    \/ \E vp \in Viewports : Launch(vp)
    \/ \E vp \in Viewports : Load(vp)
    \/ \E vp \in Viewports : Resize(vp)
    \/ \E vp \in Viewports : SaveScreenshot(vp)
    \/ \E vp \in Viewports : Quit(vp)
    \/ \E vp \in Viewports : Score(vp)
    \/ Record
    \/ NextRow
    \/ Update
    \/ Export
    \/ Report

Spec == Init /\ [][Next]_vars

\* ------------------------------------------------------------------ claims
\* The pipeline of row `index` has ended: the loop is about to take the next
\* row, or an exception of that row has left the loop.
CaseEnded == pc = "next" \/ (pc = "raised" /\ exc = "row")

\* process_google_sheet was entered, read the sheet, and is over.
BatchOver == pc \in {"returned", "raised", "end"} /\ exc # "setup" /\ ui # "input_error"

\* the loop took row i (1-based; `index` is 0-based)
Reached(i) == i <= index + 1

Field(i, vp) == IF vp = "desktop" THEN df[i].dm ELSE df[i].mm
Written(i, vp) == IF vp = "desktop" THEN writes[i].dm ELSE writes[i].mm
\* this run recorded a number in the field
Scored(i, vp) == Written(i, vp) > 0 /\ ~Absent(Field(i, vp))
Other(vp) == IF vp = "desktop" THEN "mobile" ELSE "desktop"

Trimmed(cell) == Strip(cell.val)
\* markup or style empty after trimming, or a reference locator empty
InvalidCase(r) ==
    \/ (r.html.type = "str" /\ Trimmed(r.html) = << >>)
    \/ (r.css.type = "str" /\ Trimmed(r.css) = << >>)
    \/ r.dref = Str(<< >>)
    \/ r.mref = Str(<< >>)

\* C1: when the pipeline of a case with empty (trimmed) markup or style, or an
\* empty reference locator, has ended, both match fields of the case are
\* absent and no materialize, fetch, render or score was done for it.
C1_InvalidCaseAbsentAndUntouched ==
    (CaseEnded /\ InvalidCase(Row)) =>
        /\ Absent(Row.dm)
        /\ Absent(Row.mm)
        /\ cur.ops = {}

\* C2: when the pipeline of a validated case has ended with exactly one
\* reference fetch failed and the other succeeded, the run recorded no score
\* for the failed viewport, and the fetched viewport was rendered, scored and
\* recorded with a number.
C2_OtherViewportStillScored ==
    \A vp \in Viewports :
        (CaseEnded /\ cur.fetch[vp] = "fail" /\ cur.fetch[Other(vp)] = "ok") =>
            /\ ~Scored(index + 1, vp)
            /\ cur.render[Other(vp)] = "ok"
            /\ ScorePc(Other(vp)) \in cur.ops
            /\ Scored(index + 1, Other(vp))

\* C3: the result table holds one record per row of the sheet, in the row
\* order, and once process_google_sheet is over every row was reached by the
\* loop, whatever happened to the rows before it.
C3_OneRecordPerRowAllReached ==
    /\ pc \notin {"idle", "open"} /\ exc # "setup" /\ ui # "input_error" =>
        /\ Len(df) = Len(data.rows)
        /\ \A i \in 1..Len(df) :
              /\ df[i].html = data.rows[i].html /\ df[i].css = data.rows[i].css
              /\ df[i].dref = data.rows[i].dref /\ df[i].mref = data.rows[i].mref
    /\ BatchOver => \A i \in 1..NRows : Reached(i)

\* C4: no failure of a single row leaves the row loop: the loop never raises,
\* a row whose pipeline failed has no score recorded by the run, and the
\* loop goes on to the rows after it.
C4_RowFailuresAbsorbed ==
    /\ exc # "row"
    /\ (CaseEnded /\ cur.outcome \in {"failed", "raised"}) =>
          \A vp \in Viewports : ~Scored(index + 1, vp)
    /\ (pc \in {"update", "export", "returned", "end"} /\ ui # "input_error") =>
          \A i \in 1..NRows : Reached(i)

\* C5: at most one browser instance is live; none is live outside a
\* capture_screenshot_from_file call, so none when a case ends or the batch
\* ends, whichever way the call was left.
C5_BrowserReleased ==
    /\ browsers <= 1
    /\ driver = "none" => browsers = 0
    /\ pc \notin {"render_desktop", "render_mobile"} => (driver = "none" /\ browsers = 0)

\* a render failed inside the try body, the call was left, and the next call
\* has not launched its browser yet
C5_Witness ==
    /\ pc = "render_mobile" /\ driver = "none"
    /\ cur.render["desktop"] = "failed"
    /\ browsers = 0

\* C6: when the pipeline of a case has ended and the render of a viewport
\* failed, the run recorded no number in that viewport's match field.
C6_FailedRenderNotScored ==
    \A vp \in Viewports :
        (CaseEnded /\ cur.render[vp] \in {"failed", "launch_failed"}) =>
            ~Scored(index + 1, vp)

\* C7: the run reports success only if the write-back and the export both
\* succeeded.
C7_SinkFailureNotSuccess ==
    ui = "success" => (updated = "ok" /\ exported = "ok")

InRange(c) == Absent(c) \/ (0 <= c.val /\ c.val <= 10000)

\* C8: every match field of the table is absent or within [0, 100], and so is
\* every value pixel_match returns.
C8_MatchWithinZeroToHundred ==
    /\ \A i \in 1..Len(df) : InRange(df[i].dm) /\ InRange(df[i].mm)
    /\ InRange(desktop_match) /\ InRange(mobile_match)
    /\ (pm.called /\ ~pm.raised) => (0 <= pm.ret /\ pm.ret <= 10000)

IsSuccess(status) == 200 <= status /\ status < 300

\* C9: a download_image call never raises; it returns True exactly when the
\* bytes came with a success status and were persisted, False on a network
\* error or a non-success status, and the loop goes on after a False.
C9_DownloadNeverRaises ==
    dl.called =>
        /\ ~dl.raised
        /\ dl.ret <=> (dl.resp.net = "ok" /\ IsSuccess(dl.resp.status) /\ dl.persisted)
        /\ (dl.resp.net = "err" \/ ~IsSuccess(dl.resp.status)) => ~dl.ret
        /\ ~dl.ret => (pc = "next" /\ exc = "none" /\ cur.outcome = "skipped")

\* a network error made the call return False and the loop takes the next row
C9_Witness ==
    /\ dl.called /\ dl.resp.net = "err" /\ ~dl.ret /\ ~dl.raised
    /\ pc = "next"

\* C10: a pixel_match call never raises, and with an unreadable reference or
\* candidate it returns zero without resize, grayscale or similarity work.
C10_PixelMatchNeverRaises ==
    pm.called =>
        /\ ~pm.raised
        /\ (~pm.refOk \/ ~pm.testOk) => (pm.ret = 0 /\ pm.ops = << >>)

\* the sheet was read by this run
SheetRead == pc \notin {"idle", "open"} /\ exc # "setup" /\ ui # "input_error"

\* a is b with some elements left out
RECURSIVE IsSubsequence(_, _)
IsSubsequence(a, b) ==
    IF a = << >> THEN TRUE
    ELSE IF b = << >> THEN FALSE
    ELSE IF Head(a) = Head(b) THEN IsSubsequence(Tail(a), Tail(b))
    ELSE IsSubsequence(a, Tail(b))

SameInputs(r, orig) ==
    r.html = orig.html /\ r.css = orig.css /\ r.dref = orig.dref /\ r.mref = orig.mref

\* C11: the worksheet is as it was read until the write-back; the write-back
\* and the export hold every original column in the original order, every
\* original value, and the two match columns on every row.
C11_SourceRowsIntact ==
    SheetRead =>
        /\ updated # "ok" => sheet = data
        /\ updated = "ok" =>
              /\ IsSubsequence(data.header, sheet.header)
              /\ SeqRange(MatchColumns) \subseteq SeqRange(sheet.header)
              /\ Len(sheet.rows) = Len(data.rows)
              /\ Len(sheet.match) = Len(data.rows)
              /\ \A i \in 1..Len(data.rows) : SameInputs(sheet.rows[i], data.rows[i])
        /\ exported = "ok" =>
              /\ IsSubsequence(data.header, excel.columns)
              /\ SeqRange(MatchColumns) \subseteq SeqRange(excel.columns)
              /\ Len(excel.rows) = Len(data.rows)
              /\ \A i \in 1..Len(data.rows) : SameInputs(excel.rows[i], data.rows[i])

\* the path of an artifact of a run: lines 17, 22-23 and 130-135 build it from
\* TEMP_DIR, the kind and the row index; the run is no part of it
ArtifactPath(run, i, kind) == Path(kind, i)

\* the screenshot file that pixel_match read for the viewport of the case at hand
Candidate(vp) == files[ArtifactPath("this", index, ShotKind(vp))]

\* C12: paths differ for distinct (run, case, kind), so the screenshot that was
\* scored for a case was captured for it by this run.
C12_ScoredScreenshotIsOfThisRun ==
    \A vp \in Viewports :
        (ScorePc(vp) \in cur.ops /\ Readable(Candidate(vp))) =>
            /\ Candidate(vp).run = "this"
            /\ ArtifactPath("prev", index, ShotKind(vp))
                   # ArtifactPath("this", index, ShotKind(vp))

\* the operations of one case, in the order of lines 127-155
OpOrder ==
    <<"materialize", "fetch_desktop", "fetch_mobile", "render_desktop", "render_mobile",
      "score_desktop", "score_mobile", "record">>

FirstOps(k) == {OpOrder[j] : j \in 1..k}

\* the operations done for the case at hand are the first k of the order, and
\* a mobile fetch or render was preceded by the desktop one
OpsInOrder ==
    /\ \E k \in 0..Len(OpOrder) : cur.ops = FirstOps(k)
    /\ cur.fetch["mobile"] # "none" => cur.fetch["desktop"] = "ok"
    /\ cur.render["mobile"] # "none" => cur.render["desktop"] \in {"ok", "failed"}
    /\ cur.render["desktop"] # "none" => cur.fetch["mobile"] = "ok"
    /\ "score_desktop" \in cur.ops => cur.render["mobile"] \in {"ok", "failed"}

\* a step does the next operation of the order for the same case, or takes the
\* next row after the case at hand has ended, or does no operation
OpsStep ==
    \/ /\ index' = index
       /\ cur'.ops = cur.ops
    \/ /\ index' = index
       /\ Cardinality(cur.ops) < Len(OpOrder)
       /\ cur'.ops = cur.ops \cup {OpOrder[Cardinality(cur.ops) + 1]}
    \/ /\ index' = index + 1
       /\ pc = "next"
       /\ cur.outcome \in {"recorded", "skipped", "failed"}
       /\ driver = "none"
       /\ cur'.ops = {}

\* C13: within a case the operations occur in the order materialize, fetch
\* desktop, fetch mobile, render desktop, render mobile, score desktop, score
\* mobile, record; the next case begins only after the case at hand has ended.
C13_SequentialPipeline == [](OpsInOrder) /\ [][OpsStep]_vars

\* the second case was recorded after all eight operations
C13_Witness ==
    /\ index = 1 /\ pc = "next"
    /\ cur.outcome = "recorded"
    /\ cur.ops = FirstOps(Len(OpOrder))

\* the viewport whose capture call is in progress
Rendering == IF pc = "render_desktop" THEN "desktop" ELSE "mobile"
ProfileWidth(vp) == IF vp = "desktop" THEN DesktopWidth ELSE MobileWidth

\* while a browser is open its window has the profile's width; once resized
\* its height is a measured scroll height; a screenshot of this run exists
\* only after the capture step
CaptureState ==
    /\ driver \in {"launched", "loaded", "resized", "captured"} =>
          /\ pc \in {"render_desktop", "render_mobile"}
          /\ window.width = ProfileWidth(Rendering)
    /\ driver \in {"resized", "captured"} => window.height \in PageHeights
    /\ \A vp \in Viewports :
          Candidate(vp).run = "this" =>
              \/ cur.render[vp] = "ok"
              \/ (pc = RenderPc(vp) /\ driver = "captured")

\* load, then measure and resize, then capture; the resize keeps the width
CaptureStep ==
    /\ driver' = "loaded" => driver \in {"launched", "loaded"}
    /\ driver' = "resized" =>
          \/ driver = "resized"
          \/ (driver = "loaded" /\ window'.width = window.width)
    /\ driver' = "captured" => driver \in {"resized", "captured"}

\* C14: the screenshot is captured only after load and settle, measure and
\* resize to (profile width, measured height); the width at capture is the
\* profile's (1920 desktop, 420 mobile) and the resize does not change it.
C14_CaptureAfterResize == [](CaptureState) /\ [][CaptureStep]_vars

\* the mobile screenshot was just captured in a window of 420 by a measured height
C14_Witness ==
    /\ pc = "render_mobile" /\ driver = "captured"
    /\ window = [width |-> MobileWidth, height |-> 2400]
    /\ Candidate("mobile") = Fresh("img")

\* every match field was assigned at most once
WrittenOnce == \A i \in 1..Len(writes) : writes[i].dm <= 1 /\ writes[i].mm <= 1

\* the table changes only in the record step of the case at hand, and then
\* only in the match fields of that case; the loop never goes back
TableStep ==
    /\ index' \in {index, index + 1}
    /\ (pc # "open" /\ (df' # df \/ writes' # writes)) =>
          /\ pc = "record"
          /\ index' = index
          /\ Len(df') = Len(df)
          /\ \A j \in 1..Len(df) :
                /\ SameInputs(df'[j], df[j])
                /\ j # index + 1 => (df'[j] = df[j] /\ writes'[j] = writes[j])

\* C15: a result row is written at most once in a run, no case is visited
\* again, and a write for a case changes no field of another case.
C15_WriteOncePerCase == [](WrittenOnce) /\ [][TableStep]_vars

\* the second case was recorded: written once, after the first
C15_Witness ==
    /\ index = 1 /\ pc = "next"
    /\ writes[2] = [dm |-> 1, mm |-> 1]
    /\ writes[1] = [dm |-> 1, mm |-> 1]

Terminal == {"recorded", "skipped", "failed"}

\* a case that has ended is Recorded, Skipped or Failed and the loop is about
\* to take the next row; Skipped comes from validation or fetching only; once
\* the loop is left every case was reached
CaseStates ==
    /\ CaseEnded => (cur.outcome \in Terminal /\ pc = "next")
    /\ cur.outcome = "skipped" =>
          cur.ops \subseteq {"materialize", "fetch_desktop", "fetch_mobile"}
    /\ cur.outcome = "recorded" => cur.ops = FirstOps(Len(OpOrder))
    /\ BatchOver => \A i \in 1..NRows : Reached(i)

\* a terminal state is kept until the next row is taken
CaseAbsorbing ==
    cur.outcome \in Terminal =>
        \/ cur'.outcome = cur.outcome /\ index' = index
        \/ index' = index + 1

\* C16: the row loop ends with every case Recorded, Skipped or Failed; these
\* states are absorbing, Skipped is entered from validation or fetching only,
\* and each of them advances the loop to the next case.
C16_EveryCaseTerminal == [](CaseStates) /\ [][CaseAbsorbing]_vars

\* the export is attempted once the run is over, not before every case was
\* reached, and what it wrote is the table: the rows of the sheet in their
\* order, each with its two match fields
ExportState ==
    /\ (pc = "end" /\ SheetRead) => exported # "none"
    /\ exported # "none" => (index = NRows /\ cur.outcome = "pending")
    /\ exported = "ok" =>
          /\ SeqRange(MatchColumns) \subseteq SeqRange(excel.columns)
          /\ Len(excel.rows) = Len(data.rows)
          /\ \A i \in 1..Len(data.rows) :
                /\ SameInputs(excel.rows[i], data.rows[i])
                /\ excel.rows[i].dm = df[i].dm /\ excel.rows[i].mm = df[i].mm

\* the export file is written by one step only
ExportStep ==
    (exported' # exported \/ excel' # excel) => (pc = "export" /\ exported = "none")

\* C17: the export is written exactly once per run, after every case has
\* reached a terminal state, and holds the original rows with the two match
\* columns, in the original order.
C17_ExportOnceAtEnd == [](ExportState) /\ [][ExportStep]_vars

\* the pipeline of row i (1-based) has ended
Processed(i) == i <= index \/ (i = index + 1 /\ CaseEnded)

\* C18: once a case was processed, this run wrote both of its match fields or
\* neither; a scoring call that raised leaves both unwritten.
C18_RecordAllOrNothing ==
    /\ \A i \in 1..Len(writes) : Processed(i) => writes[i].dm = writes[i].mm
    /\ (CaseEnded /\ cur.outcome = "failed") => writes[index + 1] = [dm |-> 0, mm |-> 0]

\* the mobile scoring call raised after the desktop score was computed, and
\* neither field was written
C18_Witness ==
    /\ pc = "next" /\ cur.outcome = "failed"
    /\ "score_mobile" \in cur.ops
    /\ pm.raised
    /\ desktop_match # NoneCell
    /\ writes[index + 1] = [dm |-> 0, mm |-> 0]

\* C19: when a reference fetch of the case at hand returned failure, no
\* browser was launched and nothing was scored or recorded for the case; after
\* a failed desktop fetch the mobile fetch was not attempted.
C19_FetchFailureStopsCase ==
    /\ (\E vp \in Viewports : cur.fetch[vp] = "fail") =>
          /\ cur.ops \subseteq {"materialize", "fetch_desktop", "fetch_mobile"}
          /\ \A vp \in Viewports : cur.render[vp] = "none"
          /\ driver = "none" /\ browsers = 0
          /\ ~pm.called
          /\ writes[index + 1] = [dm |-> 0, mm |-> 0]
          /\ pc = "next"
    /\ cur.fetch["desktop"] = "fail" =>
          (cur.fetch["mobile"] = "none" /\ "fetch_mobile" \notin cur.ops)

\* the desktop reference was fetched, the mobile fetch failed, the case is over
C19_Witness ==
    /\ pc = "next" /\ cur.outcome = "skipped"
    /\ cur.fetch = [desktop |-> "ok", mobile |-> "fail"]
    /\ browsers = 0

\* the match field of row i as the table held it when it was read: None when
\* the sheet had no match columns, the cell of the sheet otherwise
AsRead(i, vp) ==
    IF ~data.cols THEN NoneCell
    ELSE IF vp = "desktop" THEN data.match[i].dm ELSE data.match[i].mm

SheetField(i, vp) == IF vp = "desktop" THEN sheet.match[i].dm ELSE sheet.match[i].mm
ExcelField(i, vp) == IF vp = "desktop" THEN excel.rows[i].dm ELSE excel.rows[i].mm

\* C20: a row that was skipped or failed keeps in the table, in the write-back
\* and in the export the match fields it had when the table was read: None
\* (an empty cell of the sheet) without match columns, the old values otherwise.
C20_UnrecordedRowsKeepReadValues ==
    SheetRead =>
        /\ (pc = "next" /\ cur.outcome \in {"skipped", "failed"}) =>
              \A vp \in Viewports : Written(index + 1, vp) = 0
        /\ \A i \in 1..Len(df) : \A vp \in Viewports :
              Written(i, vp) = 0 =>
                  /\ Field(i, vp) = AsRead(i, vp)
                  /\ exported = "ok" => ExcelField(i, vp) = AsRead(i, vp)
                  /\ updated = "ok" =>
                        IF data.cols THEN SheetField(i, vp) = AsRead(i, vp)
                                     ELSE SheetField(i, vp) = BlankCell

\* a run over a sheet with old scores ended; a row that was not recorded was
\* written back and exported with its old desktop score
C20_Witness ==
    /\ pc = "end" /\ updated = "ok" /\ exported = "ok"
    /\ data.cols
    /\ \E i \in 1..Len(df) :
          /\ writes[i] = [dm |-> 0, mm |-> 0]
          /\ excel.rows[i].dm = Num(8750)
          /\ sheet.match[i].dm = Num(8750)

====
